---- MODULE Spec2Model ----
(***************************************************************************)
(* Model of gmond/modules/ibmnet/mod_ibmnet-aix.c: the per-interface rate  *)
(* computation (read_device), the resample threshold of the four getters   *)
(* (netif_*_func) and the SIGALRM timeout that disables an adapter         *)
(* (my_sig_handler).                                                       *)
(*                                                                         *)
(* Time is counted in whole seconds since boot.  A double rate is kept as  *)
(* the exact fraction <<numerator, denominator>> in lowest terms.          *)
(***************************************************************************)
EXTENDS Integers, Sequences, FiniteSets, TLC

(* ------------------------------ bounds --------------------------------- *)

\* The host stops polling once the clock has passed this many seconds.
MaxTime == 12

(* ------------------------- program constants --------------------------- *)

MIN_THRESHOLD == 5

\* alarm( 5 ) in read_device
ALARM_SECS == 5

\* delta_t passed by ibmnet_metric_init to read_device( i, 1.0, now )
INIT_DELTA_T == 1

\* bytes_received = bytes_sent = pkts_received = pkts_sent = -1LL
UNAVAILABLE == -1

\* value of a malloc'ed double that was never written (netif_devices[i].last_read)
UNSET == -1

Kinds == <<"bytes_received", "bytes_sent", "pkts_received", "pkts_sent">>

KindSet == {Kinds[j] : j \in 1..Len(Kinds)}

\* The adapters lsdev can list as Available, in its order; the enumeration finds
\* the first count of them.
DevNames == <<"ent0", "ent1">>

(* ------------------------------ doubles -------------------------------- *)

RECURSIVE GCD(_, _)
GCD(a, b) == IF b = 0 THEN a ELSE GCD(b, a % b)

Abs(x) == IF x < 0 THEN -x ELSE x

\* the double n / d (d > 0), as a fraction in lowest terms
Rat(n, d) == LET g == GCD(Abs(n), d) IN <<n \div g, d \div g>>

Zero == <<0, 1>>

\* val.d = -1.0
MinusOne == <<-1, 1>>

\* a double that is no number
NaN == <<1, 0>>

\* val.uint32 = 0 writes four bytes of the g_val_t union and leaves the rest as
\* they were on the stack (a stale return value, part of the name, anything): the
\* double the host reads from it can be any double at all.  <<n, d>> with d > 0
\* are the finite doubles n / d, <<n, 0>> with n # 0 the NaNs and the infinities.
UnwrittenDouble == (Int \X Nat) \ {<<0, 0>>}

(* ------------------- the entstat pipeline's output --------------------- *)

\* A token is the text of a decimal number, as its sequence of digits.
Lo == <<1, 0, 0, 0>>
Hi == <<3, 0, 0, 0>>

\* A line is "<sent> <received>" as printed by awk's printf("%s %s\n", $2, $4).
Lines == {<<Lo, Hi>>, <<Hi, Lo>>}

\* What the pipeline prints for a busy adapter: nothing, the Packets line alone, or
\* the Packets and the Bytes line.  Between the two full outputs every counter
\* moves: two of them up, two of them down.
Outputs == {<< >>,
            << <<Lo, Hi>> >>,
            << <<Lo, Hi>>, <<Hi, Lo>> >>,
            << <<Hi, Lo>>, <<Lo, Hi>> >>}

\* An idle adapter prints the same two lines every time.
IdleOutputs == {<< <<Lo, Hi>>, <<Hi, Lo>> >>}

\* ent0 is the busy adapter, the others are idle.
OutputsOf(devIndex) == IF devIndex = 0 THEN Outputs ELSE IdleOutputs

\* Seconds entstat takes when it answers before the alarm.
Durations == {0, ALARM_SECS - 1}

RECURSIVE StrtollFrom(_, _)
StrtollFrom(tok, acc) ==
    IF tok = << >> \/ Head(tok) \notin 0..9 THEN acc
    ELSE StrtollFrom(Tail(tok), 10 * acc + Head(tok))

\* strtoll( s, NULL, 10 ) on a non-negative number's text
strtoll(tok) == StrtollFrom(tok, 0)

\* The four counters read_device holds after the parsing section (264-299).
ParseOutput(out) ==
    [pkts_sent      |-> IF Len(out) >= 1 THEN strtoll(out[1][1]) ELSE UNAVAILABLE,
     pkts_received  |-> IF Len(out) >= 1 THEN strtoll(out[1][2]) ELSE UNAVAILABLE,
     bytes_sent     |-> IF Len(out) >= 2 THEN strtoll(out[2][1]) ELSE UNAVAILABLE,
     bytes_received |-> IF Len(out) >= 2 THEN strtoll(out[2][2]) ELSE UNAVAILABLE]

(* ------------------------------- state --------------------------------- *)

VARIABLES
    pc,                    \* "load", "init", "idle" or "sampling" (inside read_device)
    clock,                 \* get_current_time()
    netif_count,
    netif_devices,         \* [0..netif_count-1 -> netif_devices_t]
    netif_bytes_received,  \* [0..netif_count-1 -> net_perf_data_t]
    netif_bytes_sent,
    netif_pkts_received,
    netif_pkts_sent,
    metric_info,           \* the registered metric names, in order
    Signal_devIndex,
    alarm,                 \* TRUE while the SIGALRM timer is armed
    init_i,                \* loop variable i of ibmnet_metric_init's last loop
    init_now,              \* local now of ibmnet_metric_init
    frame,                 \* arguments of the read_device call in flight and its caller
    ret,                   \* value returned by the last completed handler call
    req,                   \* [dev, kind] of the last handler call
    sampled,               \* the last handler call invoked read_device
    timedOut,              \* adapters for which my_sig_handler has run
    counters,              \* the four counters of the last read_device that parsed output
    before,                \* the adapter's four records when that read_device was entered
    invoked_at,            \* per adapter: the clock when read_device was last entered
    recorded_at,           \* per adapter and kind: `now` of the read_device that stored
                           \* last_total_value
    rolled,                \* per adapter: the kinds whose counter the last returned
                           \* read_device found below the recorded one
    elapsed,               \* delta_t of the last read_device that returned
    follows                \* the last handler call did not sample and came right after
                           \* a call for another kind of its adapter that did

vars == <<pc, clock, netif_count, netif_devices, netif_bytes_received, netif_bytes_sent,
          netif_pkts_received, netif_pkts_sent, metric_info, Signal_devIndex, alarm,
          init_i, init_now, frame, ret, req, sampled, timedOut, counters, before,
          invoked_at, recorded_at, rolled, elapsed, follows>>

perfVars == <<netif_bytes_received, netif_bytes_sent, netif_pkts_received, netif_pkts_sent>>

NoFrame == [devIndex |-> -1, delta_t |-> 0, now |-> 0, caller |-> "none"]

NoReq == [dev |-> -1, kind |-> "none"]

\* no handler call has returned yet (no double is kept as <<0, 0>>)
NoValue == <<0, 0>>

NoCounters == [k \in KindSet |-> UNAVAILABLE]

NoBefore == << >>

Devs == 0..(netif_count - 1)

\* the array of a kind, among the four arrays given
Select(kind, br, bs, pr, ps) ==
    CASE kind = "bytes_received" -> br
      [] kind = "bytes_sent"     -> bs
      [] kind = "pkts_received"  -> pr
      [] kind = "pkts_sent"      -> ps

\* the array a getter of this kind reads
PerfOf(kind) ==
    Select(kind, netif_bytes_received, netif_bytes_sent, netif_pkts_received, netif_pkts_sent)

(* ------------------------ ibmnet_metric_init --------------------------- *)

Init ==
    /\ pc = "load"
    /\ clock = 0
    /\ netif_count = 0
    /\ netif_devices = << >>
    /\ netif_bytes_received = << >>
    /\ netif_bytes_sent = << >>
    /\ netif_pkts_received = << >>
    /\ netif_pkts_sent = << >>
    /\ metric_info = << >>
    /\ Signal_devIndex = -1
    /\ alarm = FALSE
    /\ init_i = 0
    /\ init_now = 0
    /\ frame = NoFrame
    /\ ret = NoValue
    /\ req = NoReq
    /\ sampled = FALSE
    /\ timedOut = {}
    /\ counters = NoCounters
    /\ before = NoBefore
    /\ invoked_at = << >>
    /\ recorded_at = << >>
    /\ rolled = << >>
    /\ elapsed = 0
    /\ follows = FALSE

\* the enabled flag is left out of the loop's initialisation
detect_and_verify_netif_devices_unset(count) ==
    [d \in 0..(count - 1) |->
        [enabled |-> (d = 0), last_read |-> UNSET, threshold |-> MIN_THRESHOLD,
         devName |-> DevNames[d + 1]]]

\* detect_and_verify_netif_devices: count adapters, all enabled, threshold MIN_THRESHOLD
detect_and_verify_netif_devices(count) ==
    [d \in 0..(count - 1) |->
        [enabled |-> TRUE, last_read |-> UNSET, threshold |-> MIN_THRESHOLD,
         devName |-> DevNames[d + 1]]]

\* apr_pcalloc'ed array of one kind
init_metric(count) ==
    [d \in 0..(count - 1) |->
        [last_value |-> Zero, curr_value |-> Zero, last_total_value |-> 0]]

\* the loop of init_metric stops one adapter short
MetricNames_short(devices, count, name) ==
    [j \in 1..(count - 1) |-> <<devices[j - 1].devName, name>>]

\* the names init_metric pushes for one kind: "<devName>_<name>"
MetricNames(devices, count, name) ==
    [j \in 1..count |-> <<devices[j - 1].devName, name>>]

\* ibmnet_metric_init up to the start of its last loop (lines 625-683)
MetricInitStart(count) ==
    /\ pc = "load"
    /\ pc' = "init"
    /\ netif_count' = count
    /\ netif_devices' = detect_and_verify_netif_devices(count)
    /\ netif_bytes_received' = init_metric(count)
    /\ netif_bytes_sent' = init_metric(count)
    /\ netif_pkts_received' = init_metric(count)
    /\ netif_pkts_sent' = init_metric(count)
    /\ metric_info' = MetricNames(netif_devices', count, "bytes_received")
                      \o MetricNames(netif_devices', count, "bytes_sent")
                      \o MetricNames(netif_devices', count, "pkts_received")
                      \o MetricNames(netif_devices', count, "pkts_sent")
    /\ init_i' = 0
    /\ init_now' = clock
    /\ invoked_at' = [d \in 0..(count - 1) |-> UNSET]
    /\ recorded_at' = [d \in 0..(count - 1) |-> [k \in KindSet |-> UNSET]]
    /\ rolled' = [d \in 0..(count - 1) |-> {}]
    /\ UNCHANGED <<clock, Signal_devIndex, alarm, frame, ret, req, sampled, timedOut,
                   counters, before, elapsed, follows>>

\* read_device does not note the adapter it was called for
ReadDeviceEnter_stale(devIndex, delta_t, now, caller) ==
    /\ UNCHANGED Signal_devIndex
    /\ alarm' = TRUE
    /\ frame' = [devIndex |-> devIndex, delta_t |-> delta_t, now |-> now, caller |-> caller]
    /\ pc' = "sampling"
    /\ before' = [k \in KindSet |-> PerfOf(k)[devIndex]]
    /\ invoked_at' = [invoked_at EXCEPT ![devIndex] = clock]

\* read_device up to the popen of entstat (lines 253-268): arm the alarm
ReadDeviceEnter(devIndex, delta_t, now, caller) ==
    /\ Signal_devIndex' = devIndex
    /\ alarm' = TRUE
    /\ frame' = [devIndex |-> devIndex, delta_t |-> delta_t, now |-> now, caller |-> caller]
    /\ pc' = "sampling"
    /\ before' = [k \in KindSet |-> PerfOf(k)[devIndex]]
    /\ invoked_at' = [invoked_at EXCEPT ![devIndex] = clock]

\* one iteration of the last loop of ibmnet_metric_init: read_device( i, 1.0, now )
InitReadDevice ==
    /\ pc = "init"
    /\ init_i < netif_count
    /\ ReadDeviceEnter(init_i, INIT_DELTA_T, init_now, "init")
    /\ UNCHANGED <<clock, netif_count, netif_devices, perfVars, metric_info,
                   init_i, init_now, ret, req, sampled, timedOut, counters, recorded_at,
                   rolled, elapsed, follows>>

\* the loop ends and ibmnet_metric_init returns 0
InitDone ==
    /\ pc = "init"
    /\ init_i >= netif_count
    /\ pc' = "idle"
    /\ UNCHANGED <<clock, netif_count, netif_devices, perfVars, metric_info, Signal_devIndex,
                   alarm, init_i, init_now, frame, ret, req, sampled, timedOut,
                   counters, before, invoked_at, recorded_at, rolled, elapsed, follows>>

(* ---------------------------- read_device ------------------------------ *)

\* the rate is taken from the counter instead of from its delta
RateUpdate_raw(s, raw, delta_t) ==
    IF raw # UNAVAILABLE
    THEN LET delta == raw - s.last_total_value
             curr  == IF delta < 0 THEN s.last_value ELSE Rat(raw, delta_t)
         IN  [last_value |-> curr, curr_value |-> curr, last_total_value |-> raw]
    ELSE s

\* the test for the -1 sentinel is missing
RateUpdate_nosentinel(s, raw, delta_t) ==
    LET delta == raw - s.last_total_value
        curr  == IF delta < 0 THEN s.last_value ELSE Rat(delta, delta_t)
    IN  [last_value |-> curr, curr_value |-> curr, last_total_value |-> raw]

\* a negative delta is divided like any other
RateUpdate_nohold(s, raw, delta_t) ==
    IF raw # UNAVAILABLE
    THEN LET curr == Rat(raw - s.last_total_value, delta_t)
         IN  [last_value |-> curr, curr_value |-> curr, last_total_value |-> raw]
    ELSE s

\* a counter below the recorded one is not stored
RateUpdate_keepraw(s, raw, delta_t) ==
    IF raw # UNAVAILABLE
    THEN LET delta == raw - s.last_total_value
             curr  == IF delta < 0 THEN s.last_value ELSE Rat(delta, delta_t)
         IN  [last_value |-> curr, curr_value |-> curr,
              last_total_value |-> IF delta < 0 THEN s.last_total_value ELSE raw]
    ELSE s

\* One of the four update blocks of read_device (313-337, 339-363, 365-389, 391-415).
RateUpdate(s, raw, delta_t) ==
    IF raw # UNAVAILABLE
    THEN LET delta == raw - s.last_total_value
             curr  == IF delta < 0 THEN s.last_value ELSE Rat(delta, delta_t)
         IN  [last_value |-> curr, curr_value |-> curr, last_total_value |-> raw]
    ELSE s

\* ibmnet_metric_init leaves the rate of the baseline call in curr_value
ResetCurr_keep(s) == s

\* netif_<kind>[i].curr_value = 0.0 in ibmnet_metric_init (688-691)
ResetCurr(s) == [s EXCEPT !.curr_value = Zero]

\* What the caller of read_device does once read_device has returned, given the
\* four arrays as read_device left them: ibmnet_metric_init zeroes the cached
\* rates and moves to the next adapter, a getter returns its kind's curr_value.
Resume(br, bs, pr, ps) ==
    IF frame.caller = "init"
    THEN /\ netif_bytes_received' = [br EXCEPT ![init_i] = ResetCurr(@)]
         /\ netif_bytes_sent' = [bs EXCEPT ![init_i] = ResetCurr(@)]
         /\ netif_pkts_received' = [pr EXCEPT ![init_i] = ResetCurr(@)]
         /\ netif_pkts_sent' = [ps EXCEPT ![init_i] = ResetCurr(@)]
         /\ init_i' = init_i + 1
         /\ pc' = "init"
         /\ UNCHANGED ret
    ELSE /\ netif_bytes_received' = br
         /\ netif_bytes_sent' = bs
         /\ netif_pkts_received' = pr
         /\ netif_pkts_sent' = ps
         /\ ret' = Select(frame.caller, br, bs, pr, ps)[frame.devIndex].curr_value
         /\ pc' = "idle"
         /\ UNCHANGED init_i

\* a getter's read_device updates the record of the getter's kind alone
ReadDeviceReturn_own(out, d) ==
    /\ pc = "sampling"
    /\ alarm
    /\ LET c   == ParseOutput(out)
           dev == frame.devIndex
       IN  /\ counters' = c
           /\ Resume([netif_bytes_received EXCEPT
                          ![dev] = IF frame.caller \in {"init", "bytes_received"}
                                   THEN RateUpdate(@, c.bytes_received, frame.delta_t)
                                   ELSE @],
                     [netif_bytes_sent EXCEPT
                          ![dev] = IF frame.caller \in {"init", "bytes_sent"}
                                   THEN RateUpdate(@, c.bytes_sent, frame.delta_t)
                                   ELSE @],
                     [netif_pkts_received EXCEPT
                          ![dev] = IF frame.caller \in {"init", "pkts_received"}
                                   THEN RateUpdate(@, c.pkts_received, frame.delta_t)
                                   ELSE @],
                     [netif_pkts_sent EXCEPT
                          ![dev] = IF frame.caller \in {"init", "pkts_sent"}
                                   THEN RateUpdate(@, c.pkts_sent, frame.delta_t)
                                   ELSE @])
           /\ netif_devices' = [netif_devices EXCEPT ![dev].last_read = frame.now]
           /\ recorded_at' = [recorded_at EXCEPT ![dev] =
                                 [k \in KindSet |-> IF c[k] # UNAVAILABLE THEN frame.now
                                                                         ELSE @[k]]]
           /\ rolled' = [rolled EXCEPT ![dev] =
                            {k \in KindSet : /\ c[k] # UNAVAILABLE
                                             /\ c[k] < PerfOf(k)[dev].last_total_value}]
    /\ elapsed' = frame.delta_t
    /\ alarm' = FALSE
    /\ clock' = clock + d
    /\ frame' = NoFrame
    /\ UNCHANGED <<netif_count, metric_info, Signal_devIndex, init_now, req, sampled,
                   timedOut, before, invoked_at, follows>>

\* entstat prints `out` after d seconds, before the alarm: read_device parses it,
\* disarms the alarm, updates the four records and last_read (264-423), and the
\* caller goes on.
ReadDeviceReturn(out, d) ==
    /\ pc = "sampling"
    /\ alarm
    /\ LET c   == ParseOutput(out)
           dev == frame.devIndex
       IN  /\ counters' = c
           /\ Resume([netif_bytes_received EXCEPT
                          ![dev] = RateUpdate(@, c.bytes_received, frame.delta_t)],
                     [netif_bytes_sent EXCEPT
                          ![dev] = RateUpdate(@, c.bytes_sent, frame.delta_t)],
                     [netif_pkts_received EXCEPT
                          ![dev] = RateUpdate(@, c.pkts_received, frame.delta_t)],
                     [netif_pkts_sent EXCEPT
                          ![dev] = RateUpdate(@, c.pkts_sent, frame.delta_t)])
           /\ netif_devices' = [netif_devices EXCEPT ![dev].last_read = frame.now]
           /\ recorded_at' = [recorded_at EXCEPT ![dev] =
                                 [k \in KindSet |-> IF c[k] # UNAVAILABLE THEN frame.now
                                                                         ELSE @[k]]]
           /\ rolled' = [rolled EXCEPT ![dev] =
                            {k \in KindSet : /\ c[k] # UNAVAILABLE
                                             /\ c[k] < PerfOf(k)[dev].last_total_value}]
    /\ elapsed' = frame.delta_t
    /\ alarm' = FALSE
    /\ clock' = clock + d
    /\ frame' = NoFrame
    /\ UNCHANGED <<netif_count, metric_info, Signal_devIndex, init_now, req, sampled,
                   timedOut, before, invoked_at, follows>>

\* the handler forgets the flag
Disable_none(devices, devIndex) == devices

\* the handler disables every adapter
Disable_all(devices, devIndex) ==
    [d \in DOMAIN devices |-> [devices[d] EXCEPT !.enabled = FALSE]]

\* the handler clears the adapter's last_read as well
Disable_reset(devices, devIndex) ==
    [devices EXCEPT ![devIndex] = [@ EXCEPT !.enabled = FALSE, !.last_read = 0]]

\* case SIGALRM: netif_devices[Signal_devIndex].enabled = FALSE
Disable(devices, devIndex) == [devices EXCEPT ![devIndex].enabled = FALSE]

\* the handler returns into the interrupted fgets instead of jumping out of it
my_sig_handler_nojump ==
    /\ pc = "sampling"
    /\ alarm
    /\ netif_devices' = Disable(netif_devices, Signal_devIndex)
    /\ alarm' = FALSE
    /\ timedOut' = timedOut \cup {Signal_devIndex}
    /\ UNCHANGED <<pc, clock, netif_count, perfVars, metric_info, Signal_devIndex, init_i,
                   init_now, frame, ret, req, sampled, counters, before, invoked_at,
                   recorded_at, rolled, elapsed, follows>>

\* SIGALRM after ALARM_SECS seconds: my_sig_handler disables the adapter named by
\* Signal_devIndex, disarms the alarm and jumps back to the setjmp of read_device,
\* which returns at once (257-258); the caller goes on.
my_sig_handler ==
    /\ pc = "sampling"
    /\ alarm
    /\ netif_devices' = Disable(netif_devices, Signal_devIndex)
    /\ alarm' = FALSE
    /\ timedOut' = timedOut \cup {Signal_devIndex}
    /\ Resume(netif_bytes_received, netif_bytes_sent, netif_pkts_received, netif_pkts_sent)
    /\ clock' = clock + ALARM_SECS
    /\ frame' = NoFrame
    /\ UNCHANGED <<netif_count, metric_info, Signal_devIndex, init_now, req, sampled,
                   counters, before, invoked_at, recorded_at, rolled, elapsed, follows>>

(* ------------------------------ getters -------------------------------- *)

\* time_diff: *now - netif_devices[netif_index].last_read
time_diff(netif_index, now) == now - netif_devices[netif_index].last_read

\* >= instead of >
Due_ge(delta_t, threshold) == delta_t >= threshold

\* if (delta_t > netif_devices[netif_index].threshold)
Due(delta_t, threshold) == delta_t > threshold

\* a getter that does not sample stamps last_read with its now
netif_func_touch(netif_index, kind) ==
    /\ req' = [dev |-> netif_index, kind |-> kind]
    /\ IF netif_devices[netif_index].enabled
       THEN LET now     == clock
                delta_t == time_diff(netif_index, now)
            IN  IF Due(delta_t, netif_devices[netif_index].threshold)
                THEN /\ ReadDeviceEnter(netif_index, delta_t, now, kind)
                     /\ sampled' = TRUE
                     /\ UNCHANGED <<ret, netif_devices>>
                ELSE /\ ret' = PerfOf(kind)[netif_index].curr_value
                     /\ sampled' = FALSE
                     /\ netif_devices' = [netif_devices EXCEPT ![netif_index].last_read = now]
                     /\ UNCHANGED <<pc, Signal_devIndex, alarm, frame, before, invoked_at>>
       ELSE /\ ret' = MinusOne
            /\ sampled' = FALSE
            /\ UNCHANGED <<pc, Signal_devIndex, alarm, frame, before, invoked_at,
                           netif_devices>>
    /\ follows' = (/\ pc' = "idle"
                    /\ sampled
                    /\ req.dev = netif_index
                    /\ req.dev \notin timedOut
                    /\ req.kind # kind)
    /\ UNCHANGED <<clock, netif_count, perfVars, metric_info, init_i,
                   init_now, timedOut, counters, recorded_at, rolled, elapsed>>

\* netif_bytes_received_func, netif_bytes_sent_func, netif_pkts_received_func and
\* netif_pkts_sent_func: the same code over the array of their kind.
netif_func(netif_index, kind) ==
    /\ req' = [dev |-> netif_index, kind |-> kind]
    /\ IF netif_devices[netif_index].enabled
       THEN LET now     == clock
                delta_t == time_diff(netif_index, now)
            IN  IF Due(delta_t, netif_devices[netif_index].threshold)
                THEN /\ ReadDeviceEnter(netif_index, delta_t, now, kind)
                     /\ sampled' = TRUE
                     /\ UNCHANGED ret
                ELSE /\ ret' = PerfOf(kind)[netif_index].curr_value
                     /\ sampled' = FALSE
                     /\ UNCHANGED <<pc, Signal_devIndex, alarm, frame, before, invoked_at>>
       ELSE /\ ret' = MinusOne
            /\ sampled' = FALSE
            /\ UNCHANGED <<pc, Signal_devIndex, alarm, frame, before, invoked_at>>
    /\ follows' = (/\ pc' = "idle"
                    /\ sampled
                    /\ req.dev = netif_index
                    /\ req.dev \notin timedOut
                    /\ req.kind # kind)
    /\ UNCHANGED <<clock, netif_count, netif_devices, perfVars, metric_info, init_i,
                   init_now, timedOut, counters, recorded_at, rolled, elapsed>>

\* the first adapter whose devName is `name`, or -1 (727-732)
FindDev(name) ==
    IF \E d \in Devs : netif_devices[d].devName = name
    THEN CHOOSE d \in Devs : /\ netif_devices[d].devName = name
                             /\ \A e \in Devs : netif_devices[e].devName = name => d <= e
    ELSE -1

\* ibmnet_metric_handler( metric_index ): split the metric's name at its first '_'
\* into adapter name and kind, find the adapter and call the kind's getter.
\* With no such adapter or kind it sets val.uint32 alone and returns the union
\* (734-738, 755-756).
ibmnet_metric_handler(metric_index) ==
    /\ pc = "idle"
    /\ clock <= MaxTime
    /\ metric_index \in 0..(Len(metric_info) - 1)
    /\ LET name     == metric_info[metric_index + 1][1]
           p        == metric_info[metric_index + 1][2]
           devIndex == FindDev(name)
       IN  IF devIndex # -1 /\ p \in KindSet
           THEN netif_func(devIndex, p)
           ELSE /\ ret' \in UnwrittenDouble
                /\ UNCHANGED <<pc, clock, netif_count, netif_devices, perfVars, metric_info,
                               Signal_devIndex, alarm, init_i, init_now, frame, req, sampled,
                               timedOut, counters, before, invoked_at, recorded_at,
                               rolled, elapsed, follows>>

\* a second passes while the host is between two requests
Tick ==
    /\ pc = "idle"
    /\ clock < MaxTime
    /\ clock' = clock + 1
    /\ UNCHANGED <<pc, netif_count, netif_devices, perfVars, metric_info, Signal_devIndex,
                   alarm, init_i, init_now, frame, ret, req, sampled, timedOut,
                   counters, before, invoked_at, recorded_at, rolled, elapsed, follows>>

Next ==
    \/ \E count \in 0..Len(DevNames) : MetricInitStart(count)
    \/ InitReadDevice
    \/ InitDone
    \/ \E out \in OutputsOf(frame.devIndex), d \in Durations : ReadDeviceReturn(out, d)
    \/ my_sig_handler
    \/ \E m \in 0..(Len(Kinds) * Len(DevNames) - 1) : ibmnet_metric_handler(m)
    \/ Tick

Spec == Init /\ [][Next]_vars

\* The kernel delivers SIGALRM ALARM_SECS seconds after alarm( 5 ) unless alarm( 0 )
\* came first: an armed alarm does not stay pending for ever.  Nothing is assumed
\* of entstat (it may never print) nor of the host (it may stop polling).
FairSpec == Spec /\ WF_vars(my_sig_handler)

(* ------------------------------ properties ----------------------------- *)

\* the arrays after a step
PerfNext(kind) ==
    Select(kind, netif_bytes_received', netif_bytes_sent', netif_pkts_received',
           netif_pkts_sent')

\* the step is a handler call for kind k of adapter x
Requested(x, k) == pc = "idle" /\ clock' = clock /\ req' = [dev |-> x, kind |-> k]

\* the step is the normal return of a read_device call
SampleReturns == pc = "sampling" /\ pc' # "sampling" /\ timedOut' = timedOut

\* the step is the normal return of a read_device call made by a getter
ResampleReturns == SampleReturns /\ frame.caller \in KindSet

\* the last handler call sampled its adapter and read_device returned normally
Resampled == pc = "idle" /\ sampled /\ req.dev \notin timedOut

\* C1: once read_device has timed out for adapter x, every later handler call for
\* any kind of x returns -1.0 and does not enter read_device.
C1_DisabledForGood ==
    [][\A x \in timedOut, k \in KindSet :
          Requested(x, k) =>
              /\ ret' = MinusOne
              /\ pc' = "idle"
              /\ ~sampled'
              /\ invoked_at' = invoked_at
              /\ alarm' = alarm]_vars

\* a call for a timed-out adapter, made when a sample would be due, returned -1.0
C1_Witness ==
    /\ pc = "idle"
    /\ req.dev \in timedOut
    /\ ~sampled
    /\ ret = MinusOne
    /\ netif_devices[req.dev].last_read # UNSET
    /\ clock - netif_devices[req.dev].last_read > netif_devices[req.dev].threshold

\* C2: the handler call whose read_device timed out returns -1.0 itself.
C2_TimedOutCallReturnsMinusOne ==
    (pc = "idle" /\ sampled /\ req.dev \in timedOut) => ret = MinusOne

\* C3: a resample that reads a counter below the recorded one returns the rate the
\* getter of that kind returned before the resample (the cached curr_value).
C3_NegativeDeltaHoldsRate ==
    (/\ Resampled
     /\ counters[req.kind] # UNAVAILABLE
     /\ counters[req.kind] < before[req.kind].last_total_value)
    => ret = before[req.kind].curr_value

\* C4: a call for an enabled adapter at now - last_read <= threshold returns the
\* cached rate and changes neither the adapter nor the records; read_device is
\* entered only when now - last_read > threshold.
C4_NoResampleWithinThreshold ==
    [][\A x \in DOMAIN netif_devices, k \in KindSet :
          (Requested(x, k) /\ netif_devices[x].enabled) =>
              /\ (clock - netif_devices[x].last_read <= netif_devices[x].threshold) =>
                    /\ pc' = "idle"
                    /\ ~sampled'
                    /\ ret' = PerfOf(k)[x].curr_value
                    /\ UNCHANGED <<netif_devices, perfVars, invoked_at>>
              /\ (pc' = "sampling") =>
                    clock - netif_devices[x].last_read > netif_devices[x].threshold]_vars

\* a call exactly threshold seconds after the last sample returned a cached,
\* non-zero rate without sampling
C4_Witness ==
    /\ pc = "idle"
    /\ req.dev \in DOMAIN netif_devices
    /\ netif_devices[req.dev].enabled
    /\ ~sampled
    /\ clock - netif_devices[req.dev].last_read = netif_devices[req.dev].threshold
    /\ ret = PerfOf(req.kind)[req.dev].curr_value
    /\ ret # Zero

\* C5: in a resample, a counter read at or above the recorded one gets the rate
\* (new - recorded) / delta_t, delta_t being the elapsed time passed to
\* read_device, and the counter read becomes the recorded one.
C5_RateIsDeltaOverElapsed ==
    [][ResampleReturns =>
          \A k \in KindSet :
              LET old == PerfOf(k)[frame.devIndex]
                  new == PerfNext(k)[frame.devIndex]
              IN  (counters'[k] # UNAVAILABLE /\ counters'[k] >= old.last_total_value) =>
                      /\ new.curr_value[2] > 0
                      /\ new.curr_value[1] * frame.delta_t
                            = (counters'[k] - old.last_total_value) * new.curr_value[2]
                      /\ new.last_total_value = counters'[k]
                      /\ (k = frame.caller) => ret' = new.curr_value]_vars

\* a resample read the requested counter above the recorded one and returned a
\* rate that is no whole number
C5_Witness ==
    /\ Resampled
    /\ counters[req.kind] > before[req.kind].last_total_value
    /\ before[req.kind].last_total_value > 0
    /\ ret = PerfOf(req.kind)[req.dev].curr_value
    /\ ret[2] > 1

\* C6: the elapsed time of a resample is the time since the sample that stored the
\* counter the delta is taken against.
C6_ElapsedSinceRecordingSample ==
    [][ResampleReturns =>
          \A k \in KindSet :
              (/\ counters'[k] # UNAVAILABLE
               /\ recorded_at[frame.devIndex][k] # UNSET)
              => frame.delta_t = frame.now - recorded_at[frame.devIndex][k]]_vars

\* C7: every adapter is enabled when enumerated, and the only change of an enabled
\* flag is from TRUE to FALSE, by the alarm of a read_device call for that adapter.
C7_EnabledMonotone ==
    [][/\ (pc = "load") => \A d \in DOMAIN netif_devices' : netif_devices'[d].enabled
       /\ \A d \in DOMAIN netif_devices :
             (netif_devices'[d].enabled # netif_devices[d].enabled) =>
                 /\ netif_devices[d].enabled
                 /\ ~netif_devices'[d].enabled
                 /\ pc = "sampling"
                 /\ alarm
                 /\ frame.devIndex = d
                 /\ d \in timedOut']_vars

\* late in the run one adapter is disabled and another is still enabled
C7_Witness ==
    /\ pc = "idle"
    /\ clock >= MaxTime
    /\ \E d, e \in DOMAIN netif_devices :
          /\ ~netif_devices[d].enabled
          /\ d \in timedOut
          /\ netif_devices[e].enabled

\* C8: the timeout of adapter x changes no field of another adapter y (enabled,
\* last_read, the four records), an adapter that never timed out stays enabled,
\* and once some adapter has timed out a call for such a y still returns y's
\* cached rate or resamples y, as its own last_read demands.
C8_TimeoutIsolated ==
    [][/\ (timedOut' # timedOut) =>
             \A y \in DOMAIN netif_devices \ (timedOut' \ timedOut) :
                 /\ netif_devices'[y] = netif_devices[y]
                 /\ \A k \in KindSet : PerfNext(k)[y] = PerfOf(k)[y]
       /\ \A y \in DOMAIN netif_devices \ timedOut, k \in KindSet :
             /\ netif_devices[y].enabled
             /\ (timedOut # {} /\ Requested(y, k)) =>
                   IF clock - netif_devices[y].last_read > netif_devices[y].threshold
                   THEN pc' = "sampling" /\ frame'.devIndex = y /\ Signal_devIndex' = y
                   ELSE pc' = "idle" /\ ret' = PerfOf(k)[y].curr_value]_vars

\* after another adapter had timed out, a call resampled its own adapter and
\* returned a fresh non-zero rate
C8_Witness ==
    /\ Resampled
    /\ timedOut # {}
    /\ ret # Zero
    /\ ret = PerfOf(req.kind)[req.dev].curr_value
    /\ netif_devices[req.dev].last_read > init_now

\* C9: when read_device returns with a counter at the -1 sentinel, the record of
\* that kind is unchanged and a getter of that kind returns the rate cached
\* before; every counter that was read is stored in the record of its kind.
C9_UnavailableLeavesRecord ==
    [][SampleReturns =>
          \A k \in KindSet :
              LET old == PerfOf(k)[frame.devIndex]
                  new == PerfNext(k)[frame.devIndex]
              IN  IF counters'[k] = UNAVAILABLE
                  THEN /\ new = old
                       /\ (k = frame.caller) => ret' = old.curr_value
                  ELSE /\ new.last_total_value = counters'[k]
                       /\ (frame.caller \in KindSet) => new.last_value = new.curr_value]_vars

\* a resample read the Packets line alone: the requested Bytes kind returned its
\* cached non-zero rate while a Packets record changed
C9_Witness ==
    /\ Resampled
    /\ counters[req.kind] = UNAVAILABLE
    /\ ret = before[req.kind].curr_value
    /\ ret # Zero
    /\ PerfOf(req.kind)[req.dev] = before[req.kind]
    /\ \E k \in KindSet :
          /\ counters[k] # UNAVAILABLE
          /\ PerfOf(k)[req.dev] # before[k]

\* C10: read_device is entered for an adapter only more than the threshold after
\* it was last entered for that adapter.
C10_SamplesSpaced ==
    [][\A x \in DOMAIN invoked_at :
          (/\ pc # "sampling"
           /\ pc' = "sampling"
           /\ frame'.devIndex = x
           /\ invoked_at[x] # UNSET)
          => clock - invoked_at[x] > MIN_THRESHOLD]_vars

\* C11: in every state curr_value and last_value of every record are not
\* negative, and a read_device call in flight holds a delta_t above zero.
C11_RatesNonNegative ==
    /\ \A d \in Devs, k \in KindSet :
          /\ PerfOf(k)[d].curr_value[1] >= 0
          /\ PerfOf(k)[d].curr_value[2] > 0
          /\ PerfOf(k)[d].last_value[1] >= 0
          /\ PerfOf(k)[d].last_value[2] > 0
    /\ (pc = "sampling") => frame.delta_t > 0

\* a resample read the requested counter below the recorded one and the call
\* returned a rate above zero
C11_Witness ==
    /\ Resampled
    /\ counters[req.kind] # UNAVAILABLE
    /\ counters[req.kind] < before[req.kind].last_total_value
    /\ ret = PerfOf(req.kind)[req.dev].curr_value
    /\ ret[1] > 0

\* C12: every getter call that entered read_device gets back to the host with a
\* value, whether entstat answers or not, the armed alarm being delivered.
C12_RequestReturns ==
    (pc = "sampling" /\ frame.caller \in KindSet) ~> (pc = "idle" /\ ret # NoValue)

\* a getter call whose read_device was cut off by the alarm has returned a value
C12_Witness ==
    /\ pc = "idle"
    /\ sampled
    /\ req.dev \in timedOut
    /\ ~netif_devices[req.dev].enabled
    /\ ret # NoValue
    /\ clock - invoked_at[req.dev] = ALARM_SECS

\* ent0 is enabled with threshold 5 and its baseline sample, stamped t = 0, stored
\* bytes_received = 1000
BaselineScenario ==
    /\ 0 \in DOMAIN netif_devices
    /\ netif_devices[0].devName = "ent0"
    /\ netif_devices[0].enabled
    /\ netif_devices[0].threshold = 5
    /\ netif_devices[0].last_read = 0
    /\ netif_bytes_received[0].last_total_value = 1000

\* C13 as stated: after that baseline the request for ent0_bytes_received at t = 5
\* samples the counter (3000 by then) and returns (3000 - 1000) / 5 = 400.0.
C13_RateAtThreshold ==
    [][(BaselineScenario /\ clock = 5 /\ Requested(0, "bytes_received")) =>
          \/ pc' = "sampling"
          \/ ret' = Rat(3000 - 1000, 5)]_vars

\* C13, amended: the request at t = 5 does not sample and returns the cached 0.0;
\* the request at t = 6 samples, and reading 3000 it returns (3000 - 1000) / 6.
C13_RateAfterThreshold ==
    [][/\ (BaselineScenario /\ clock = 5 /\ Requested(0, "bytes_received")) =>
             /\ pc' = "idle"
             /\ ~sampled'
             /\ ret' = Zero
             /\ UNCHANGED <<netif_devices, perfVars>>
       /\ (BaselineScenario /\ clock = 6 /\ Requested(0, "bytes_received")) =>
             /\ pc' = "sampling"
             /\ frame'.delta_t = 6
       /\ (/\ BaselineScenario
           /\ ResampleReturns
           /\ frame.devIndex = 0
           /\ frame.caller = "bytes_received"
           /\ frame.now = 6
           /\ counters'.bytes_received = 3000) =>
             /\ ret' = Rat(3000 - 1000, 6)
             /\ netif_bytes_received'[0].last_total_value = 3000
             /\ netif_devices'[0].last_read = 6]_vars

\* the request at t = 6 read 3000 against the baseline 1000 and returned 1000/3
C13_Witness ==
    /\ Resampled
    /\ req = [dev |-> 0, kind |-> "bytes_received"]
    /\ netif_devices[0].last_read = 6
    /\ before.bytes_received.last_total_value = 1000
    /\ before.bytes_received.curr_value = Zero
    /\ counters.bytes_received = 3000
    /\ ret = <<1000, 3>>

\* the metrics registered under the name <devName>_<kind>
Registered(devName, kind) ==
    {m \in 1..Len(metric_info) : metric_info[m] = <<devName, kind>>}

\* the registered metrics are the 4 * netif_count names <devName>_<kind>, one for
\* each adapter and kind, and each of the four arrays has netif_count records
TableShape ==
    /\ Len(metric_info) = 4 * netif_count
    /\ DOMAIN netif_devices = Devs
    /\ \A k \in KindSet : DOMAIN PerfOf(k) = Devs
    /\ \A d \in Devs, k \in KindSet :
          Cardinality(Registered(netif_devices[d].devName, k)) = 1
    /\ \A m \in 1..Len(metric_info) :
          \E d \in Devs, k \in KindSet : metric_info[m] = <<netif_devices[d].devName, k>>

\* with no adapter found nothing is registered, read_device is never entered and
\* ibmnet_metric_init is at, or can go to, its return( 0 )
InertWhenEmpty ==
    (netif_count = 0) =>
        /\ metric_info = << >>
        /\ pc \in {"init", "idle"}
        /\ (pc = "init") => ENABLED InitDone
        /\ ~alarm
        /\ Signal_devIndex = -1
        /\ invoked_at = << >>

\* C14: once ibmnet_metric_init has enumerated N adapters, exactly 4 * N metrics
\* are registered, one named <devName>_<kind> per adapter and kind, and neither
\* the metric table nor the arrays change size afterwards; with N = 0 no metric
\* is registered, read_device is not called and ibmnet_metric_init returns 0.
C14_MetricTableFixed ==
    /\ []((pc # "load") => (TableShape /\ InertWhenEmpty))
    /\ [][(pc # "load") =>
             /\ netif_count' = netif_count
             /\ metric_info' = metric_info
             /\ DOMAIN netif_devices' = DOMAIN netif_devices
             /\ \A k \in KindSet : DOMAIN PerfNext(k) = DOMAIN PerfOf(k)]_vars

\* at the end of the run, after samples and a timeout, the eight metrics of two
\* adapters are registered as at startup
C14_Witness ==
    /\ pc = "idle"
    /\ clock >= MaxTime
    /\ netif_count = 2
    /\ timedOut # {}
    /\ Resampled
    /\ metric_info = << <<"ent0", "bytes_received">>, <<"ent1", "bytes_received">>,
                        <<"ent0", "bytes_sent">>, <<"ent1", "bytes_sent">>,
                        <<"ent0", "pkts_received">>, <<"ent1", "pkts_received">>,
                        <<"ent0", "pkts_sent">>, <<"ent1", "pkts_sent">> >>

\* C15: a sample that reads a counter r1 below the recorded one holds the rate
\* (curr_value takes last_value) and records r1; the adapter's next sample, reading
\* r2 >= r1 for that kind, sets the rate to (r2 - r1) / delta_t, delta_t being the
\* time since the sample that read r1, and is not held again.
C15_HeldOneCycle ==
    [][SampleReturns =>
          \A k \in KindSet :
              LET dev == frame.devIndex
                  old == PerfOf(k)[dev]
                  new == PerfNext(k)[dev]
                  r   == counters'[k]
              IN  /\ (r # UNAVAILABLE /\ r < old.last_total_value) =>
                        /\ new.curr_value = old.last_value
                        /\ new.last_total_value = r
                        /\ k \in rolled'[dev]
                  /\ (k \in rolled[dev] /\ r # UNAVAILABLE /\ r >= old.last_total_value) =>
                        /\ frame.delta_t = frame.now - recorded_at[dev][k]
                        /\ new.curr_value = Rat(r - old.last_total_value, frame.delta_t)
                        /\ new.last_total_value = r
                        /\ k \notin rolled'[dev]]_vars

\* the resample at t = 6 read 1000 below the baseline 3000 and held 3000.0; the
\* resample at t = 12 read 3000 and returned (3000 - 1000) / 6
C15_Witness ==
    /\ Resampled
    /\ before[req.kind].last_total_value = 1000
    /\ before[req.kind].curr_value = <<3000, 1>>
    /\ counters[req.kind] = 3000
    /\ req.kind \notin rolled[req.dev]
    /\ netif_devices[req.dev].last_read = 12
    /\ ret = <<1000, 3>>

\* C16: the read_device of one getter call sets last_read to the call's now and
\* updates the record of every kind whose counter was read with the one delta_t of
\* the call; the next call, if for another kind of the adapter and no later than
\* threshold seconds after that now, does not sample and returns the rate that
\* read_device computed for its kind.
C16_OneSampleAllKinds ==
    [][/\ ResampleReturns =>
             /\ netif_devices'[frame.devIndex].last_read = frame.now
             /\ \A k \in KindSet :
                   LET old == PerfOf(k)[frame.devIndex]
                       new == PerfNext(k)[frame.devIndex]
                       r   == counters'[k]
                   IN  (r # UNAVAILABLE) =>
                           /\ new.last_total_value = r
                           /\ new.curr_value =
                                  IF r < old.last_total_value THEN old.last_value
                                  ELSE Rat(r - old.last_total_value, frame.delta_t)
       /\ \A k \in KindSet :
             (/\ Resampled
              /\ Requested(req.dev, k)
              /\ k # req.kind
              /\ counters[k] # UNAVAILABLE
              /\ clock - netif_devices[req.dev].last_read <= netif_devices[req.dev].threshold)
             => /\ pc' = "idle"
                /\ ~sampled'
                /\ netif_devices' = netif_devices
                /\ ret' = IF counters[k] < before[k].last_total_value
                          THEN before[k].last_value
                          ELSE Rat(counters[k] - before[k].last_total_value, elapsed)]_vars

\* right after a resample of ent0 for one kind, a call for another kind returned,
\* without sampling, the rate that resample computed from that kind's counter
C16_Witness ==
    /\ pc = "idle"
    /\ follows
    /\ ~sampled
    /\ req.dev = 0
    /\ counters[req.kind] > before[req.kind].last_total_value
    /\ before[req.kind].last_total_value > 0
    /\ ret = Rat(counters[req.kind] - before[req.kind].last_total_value, elapsed)
    /\ netif_devices[0].last_read > init_now
    /\ clock - netif_devices[0].last_read <= netif_devices[0].threshold
    /\ \E k \in KindSet \ {req.kind} :
          /\ counters[k] > before[k].last_total_value
          /\ PerfOf(k)[0].curr_value = ret

\* C17: a handler call that returns without entering read_device (adapter
\* disabled, or now - last_read <= threshold) leaves the adapter table, the four
\* arrays, the metric table, Signal_devIndex and the alarm as they were, and
\* returns what the call before it returned if that was such a call for the same
\* metric.
C17_NoSampleNoChange ==
    [][\A x \in DOMAIN netif_devices, k \in KindSet :
          (Requested(x, k) /\ pc' = "idle") =>
              /\ UNCHANGED <<netif_count, netif_devices, perfVars, metric_info,
                             Signal_devIndex, alarm, clock>>
              /\ \/ ~netif_devices[x].enabled
                 \/ clock - netif_devices[x].last_read <= netif_devices[x].threshold
              /\ (req = req' /\ ~sampled) => ret' = ret]_vars

\* after a resample, and after another adapter had been disabled, a call made
\* while no sample was due returned the non-zero cached rate
C17_Witness ==
    /\ pc = "idle"
    /\ ~sampled
    /\ timedOut # {}
    /\ req.dev \in DOMAIN netif_devices
    /\ netif_devices[req.dev].enabled
    /\ netif_devices[req.dev].last_read > init_now
    /\ clock - netif_devices[req.dev].last_read <= netif_devices[req.dev].threshold
    /\ ret = PerfOf(req.kind)[req.dev].curr_value
    /\ ret # Zero

\* C18: the step in which a read_device call times out changes, of the adapter
\* table and the four arrays, only the enabled flag of the adapter sampled: its
\* last_read and its four records (last_total_value, last_value, curr_value) stay
\* as they were when read_device was entered.
C18_TimeoutChangesFlagOnly ==
    [][(timedOut' # timedOut) =>
          /\ pc = "sampling"
          /\ timedOut' = timedOut \cup {frame.devIndex}
          /\ netif_devices' = [netif_devices EXCEPT ![frame.devIndex].enabled = FALSE]
          /\ \A k \in KindSet :
                /\ PerfNext(k) = PerfOf(k)
                /\ PerfNext(k)[frame.devIndex] = before[k]]_vars

\* a getter call for a resampled adapter timed out: the adapter is disabled, its
\* last_read is the earlier sample's and its records hold that sample's rates
C18_Witness ==
    /\ pc = "idle"
    /\ sampled
    /\ req.dev \in timedOut
    /\ ~netif_devices[req.dev].enabled
    /\ netif_devices[req.dev].last_read > init_now
    /\ netif_devices[req.dev].last_read < invoked_at[req.dev]
    /\ \A k \in KindSet : PerfOf(k)[req.dev] = before[k]
    /\ \E k \in KindSet : PerfOf(k)[req.dev].curr_value # Zero

\* the baseline call of ibmnet_metric_init returned for adapter d and no
\* read_device call of a getter has returned or timed out for it since
BaselineOnly(d) ==
    /\ d \notin timedOut
    /\ netif_devices[d].last_read = init_now

\* the baseline call for adapter d timed out
TimedOutAtInit(d) ==
    /\ d \in timedOut
    /\ netif_devices[d].last_read = UNSET

\* what the getters do for an adapter after ibmnet_metric_init: 0.0 as long as
\* only the baseline was taken, the first read_device call more than threshold
\* seconds after the baseline's now, and -1.0 for an adapter whose baseline call
\* timed out
GettersAfterInit ==
    \A x \in DOMAIN netif_devices, k \in KindSet :
        Requested(x, k) =>
            /\ TimedOutAtInit(x) => (pc' = "idle" /\ ret' = MinusOne)
            /\ BaselineOnly(x) =>
                  IF clock - init_now > netif_devices[x].threshold
                  THEN pc' = "sampling" /\ frame'.devIndex = x
                  ELSE pc' = "idle" /\ ret' = Zero

\* C19 as stated: after the baseline every adapter that did not time out has all
\* four counters recorded and all four cached rates at 0.0; its getters return 0.0
\* until the first resample, and the getters of an adapter that timed out during
\* the baseline return -1.0.
C19_BaselineAllRecorded ==
    /\ [](\A d \in DOMAIN netif_devices :
             /\ (netif_devices[d].last_read = UNSET /\ pc = "idle") => TimedOutAtInit(d)
             /\ BaselineOnly(d) =>
                   \A k \in KindSet :
                       /\ PerfOf(k)[d].curr_value = Zero
                       /\ recorded_at[d][k] = init_now
                       /\ PerfOf(k)[d].last_total_value > 0)
    /\ [][GettersAfterInit]_vars

\* C19, amended: after the baseline every adapter that did not time out has each
\* counter the baseline read recorded (a counter it did not read is left at 0)
\* and all four cached rates at 0.0; its getters return 0.0 until the first
\* resample, and the getters of an adapter that timed out during the baseline
\* return -1.0.
C19_BaselineRecorded ==
    /\ [](\A d \in DOMAIN netif_devices :
             /\ (netif_devices[d].last_read = UNSET /\ pc = "idle") => TimedOutAtInit(d)
             /\ BaselineOnly(d) =>
                   \A k \in KindSet :
                       /\ PerfOf(k)[d].curr_value = Zero
                       /\ IF recorded_at[d][k] = UNSET
                          THEN PerfOf(k)[d].last_total_value = 0
                          ELSE /\ recorded_at[d][k] = init_now
                               /\ PerfOf(k)[d].last_total_value > 0)
    /\ [][GettersAfterInit]_vars
    /\ [][(SampleReturns /\ frame.caller = "init") =>
             \A k \in KindSet :
                 LET new == PerfNext(k)[frame.devIndex]
                 IN  /\ new.curr_value = Zero
                     /\ new.last_total_value =
                            IF counters'[k] # UNAVAILABLE THEN counters'[k] ELSE 0
                     /\ recorded_at'[frame.devIndex][k] =
                            IF counters'[k] # UNAVAILABLE THEN init_now ELSE UNSET]_vars

\* threshold seconds after a baseline that read the Packets line alone, a getter
\* of ent0 returned 0.0 without sampling, and a getter of ent1, whose baseline
\* call had timed out, would return -1.0
C19_Witness ==
    /\ pc = "idle"
    /\ netif_count = 2
    /\ BaselineOnly(0)
    /\ TimedOutAtInit(1)
    /\ req.dev = 0
    /\ ~sampled
    /\ ret = Zero
    /\ clock - init_now = netif_devices[0].threshold
    /\ netif_pkts_sent[0].last_total_value > 0
    /\ netif_bytes_sent[0].last_total_value = 0
    /\ ~netif_devices[1].enabled

\* C20: the alarm is armed exactly while a read_device call is in flight, and
\* then Signal_devIndex names the enabled adapter that call samples; both ways
\* out of read_device leave the alarm disarmed; the adapter a timeout disables is
\* the one being sampled, and no adapter is disabled at any other step.
C20_AlarmOnlyInFlight ==
    /\ [](/\ alarm <=> (pc = "sampling")
          /\ alarm =>
                /\ frame.devIndex \in Devs
                /\ Signal_devIndex = frame.devIndex
                /\ netif_devices[frame.devIndex].enabled
          /\ ~alarm => frame = NoFrame)
    /\ [][/\ (pc = "sampling" /\ pc' # "sampling") => ~alarm'
          /\ \A d \in DOMAIN netif_devices :
                (netif_devices[d].enabled /\ ~netif_devices'[d].enabled) =>
                    /\ alarm
                    /\ pc = "sampling"
                    /\ d = frame.devIndex
                    /\ timedOut' = timedOut \cup {d}
          /\ (timedOut' # timedOut) => (alarm /\ timedOut' = timedOut \cup {frame.devIndex})
         ]_vars

\* after ent0 was disabled by its timeout, a getter's read_device call for ent1 is
\* in flight: the alarm is armed and Signal_devIndex has moved to ent1
C20_Witness ==
    /\ pc = "sampling"
    /\ alarm
    /\ 0 \in timedOut
    /\ frame.devIndex = 1
    /\ frame.caller \in KindSet
    /\ Signal_devIndex = 1
    /\ netif_devices[1].enabled
    /\ ~netif_devices[0].enabled

====
